---- MODULE Spec2Model ----
(***************************************************************************)
(* Model of the merging (coalescing) free-list byte allocator of           *)
(* crates/allocator/src/merging.rs.                                        *)
(*                                                                         *)
(* Memory is modelled at the granularity of FreeBlock headers: `mem` maps  *)
(* the address of every header that is reachable from `head` to its        *)
(* {size, next} fields.  Addresses and sizes are byte values; usize is     *)
(* modelled with WordBits bits.  All block addresses used are multiples of *)
(* 16, so two headers never share bytes.                                   *)
(***************************************************************************)
EXTENDS Integers, Sequences, FiniteSets, Bags, TLC

\* ---------------------------------------------------------------- bounds
WordBits == 20          \* modelled width of usize
NumCallers == 2         \* concurrent execution contexts
PoolPages == 1          \* pages the Page Supplier owns
MaxOutstanding == 2     \* allocations held by callers at the same time

\* ------------------------------------------------------------- constants
PAGE_SIZE == 4096
NULL == 0               \* Option<NonNull<FreeBlock>>::None
HEAD == 0               \* the link location &mut self.head
HANG == -1              \* a list walk that never ends
NONE == -2              \* checked_add overflow / walk found nothing

usize_MAX == 2^WordBits - 1
Callers == 1..NumCallers

PoolBase == 4 * PAGE_SIZE

\* Extents (start, size) the callers donate.
InitExtents == { <<PAGE_SIZE + 1024, PAGE_SIZE>>,
                 <<PoolBase - 2048, 1024>> }
AddExtents  == { <<PoolBase - 1024, 1024>>,
                 <<PoolBase - 1536, 1024>>,
                 <<PoolBase - 1536, usize_MAX>> }
\* Layouts (size, align) the callers request.
Layouts == { <<1024, 8>>, <<1024, 2048>>, <<4096, 2048>> }

\* Extents and layouts of the callers whose lock steps are followed.
LockInitExtents == { <<PAGE_SIZE + 1024, PAGE_SIZE>> }
LockAddExtents  == { <<PoolBase - 1024, 1024>> }
LockLayouts == { <<1024, 8>>, <<4096, 2048>> }

Max(a, b) == IF a >= b THEN a ELSE b
Range(s) == { s[i] : i \in DOMAIN s }

\* ------------------------------------------------------ integer helpers
\* usize::checked_add
checked_add_wrapping(a, b) == (a + b) % (usize_MAX + 1)
checked_add(a, b) == IF a + b > usize_MAX THEN NONE ELSE a + b

RECURSIVE npot_from(_, _)
npot_from(p, n) == IF p >= n THEN p ELSE npot_from(2 * p, n)
\* usize::next_power_of_two
next_power_of_two(n) == npot_from(1, n)

\* (addr + align - 1) & !(align - 1), align a power of two
aligned_ptr_unaligned(addr, align) == addr
aligned_ptr(addr, align) == ((addr + align - 1) \div align) * align

\* ------------------------------------------------------- memory helpers
\* Write the size field of the header at `block` (next keeps what memory held).
write_size(m, block, size) ==
    [a \in DOMAIN m \cup {block} |->
        IF a = block
        THEN [size |-> size, next |-> IF a \in DOMAIN m THEN m[a].next ELSE NULL]
        ELSE m[a]]

\* *current, where current is &mut self.head (HEAD) or &mut x.next (x)
Deref(h, m, cur) == IF cur = HEAD THEN h ELSE m[cur].next
\* *current = v
SetLink(h, m, cur, v) ==
    IF cur = HEAD THEN [st |-> "ok", h |-> v, m |-> m]
    ELSE [st |-> "ok", h |-> h, m |-> [m EXCEPT ![cur].next = v]]

Hung(h, m) == [st |-> "hang", h |-> h, m |-> m]
\* A walk over n headers that has not changed the list for n + 1 steps is at
\* a header it has been at before and never ends; a walk changes the list at
\* most n times (each change unlinks a header).  More steps than this bound
\* therefore mean the loop does not terminate.
Fuel(m) == (Cardinality(DOMAIN m) + 1) * (Cardinality(DOMAIN m) + 1)

\* Headers reachable from the head, in list order, each once.
RECURSIVE chain_walk(_, _, _)
chain_walk(m, cur, seen) ==
    IF cur = NULL \/ cur \in Range(seen) THEN seen
    ELSE chain_walk(m, m[cur].next, Append(seen, cur))
Chain(h, m) == chain_walk(m, h, <<>>)
RECURSIVE ends_walk(_, _, _)
ends_walk(m, cur, seen) ==
    IF cur = NULL THEN TRUE
    ELSE IF cur \in seen THEN FALSE
    ELSE ends_walk(m, m[cur].next, seen \cup {cur})
\* Following next from the head reaches None.
Acyclic(h, m) == ends_walk(m, h, {})
\* Memory the allocator can still read: headers reachable from the head.
Live(h, m) == [a \in Range(Chain(h, m)) |-> m[a]]

\* ------------------------------------------------------- Free-List Core
RECURSIVE find_walk(_, _, _, _)
find_walk(m, block, size, fuel) ==
    IF block = NULL THEN NULL
    ELSE IF m[block].size >= size THEN block
    ELSE IF fuel = 0 THEN HANG
    ELSE find_walk(m, m[block].next, size, fuel - 1)
find_free_block(h, m, size) == find_walk(m, h, size, Fuel(m))

RECURSIVE insert_walk(_, _, _, _, _)
insert_walk(h, m, block, cur, fuel) ==
    LET next_block == Deref(h, m, cur) IN
    IF next_block = NULL \/ block < next_block THEN cur
    ELSE IF fuel = 0 THEN HANG
    ELSE insert_walk(h, m, block, next_block, fuel - 1)
insert_free_block_at_head(h, m, block) ==
    [st |-> "ok", h |-> block, m |-> [m EXCEPT ![block].next = h]]
insert_free_block(h, m, block) ==
    LET cur == insert_walk(h, m, block, HEAD, Fuel(m)) IN
    IF cur = HANG THEN Hung(h, m)
    ELSE LET m1 == [m EXCEPT ![block].next = Deref(h, m, cur)]
         IN  SetLink(h, m1, cur, block)

RECURSIVE remove_walk(_, _, _, _, _)
remove_walk(h, m, block, cur, fuel) ==
    LET next_block == Deref(h, m, cur) IN
    IF next_block = NULL THEN NONE
    ELSE IF next_block = block THEN cur
    ELSE IF fuel = 0 THEN HANG
    ELSE remove_walk(h, m, block, next_block, fuel - 1)
remove_free_block(h, m, block) ==
    LET cur == remove_walk(h, m, block, HEAD, Fuel(m)) IN
    IF cur = HANG THEN Hung(h, m)
    ELSE IF cur = NONE THEN [st |-> "ok", h |-> h, m |-> m]
    ELSE SetLink(h, m, cur, m[block].next)

RECURSIVE merge_walk(_, _, _, _, _)
merge_walk(h, m, block, cur, fuel) ==
    LET next_block == Deref(h, m, cur) IN
    IF next_block = NULL THEN [st |-> "ok", h |-> h, m |-> m]
    ELSE IF fuel = 0 THEN Hung(h, m)
    ELSE IF next_block + m[next_block].size = block
    THEN LET m1 == [m EXCEPT ![block].size = @ + m[next_block].size]
             r  == remove_free_block(h, m1, next_block)
         IN  IF r.st = "hang" THEN r
             ELSE merge_walk(r.h, r.m, block, next_block, fuel - 1)
    ELSE IF block + m[block].size = next_block
    THEN LET m1 == [m EXCEPT ![next_block].size = @ + m[block].size]
         IN  remove_free_block(h, m1, block)
    ELSE merge_walk(h, m, block, next_block, fuel - 1)
merge_adjacent_blocks(h, m, block) == merge_walk(h, m, block, HEAD, Fuel(m))

\* start < block_end && new_end > block_ptr
ranges_overlap_closed(start, new_end, block_ptr, block_end) ==
    start <= block_end /\ new_end >= block_ptr
ranges_overlap(start, new_end, block_ptr, block_end) ==
    start < block_end /\ new_end > block_ptr

RECURSIVE checked_walk(_, _, _, _, _)
checked_walk(m, block, start, new_end, fuel) ==
    IF block = NULL THEN "Ok"
    ELSE LET block_end == checked_add(block, m[block].size) IN
         IF block_end = NONE THEN "InvalidParam"
         ELSE IF ranges_overlap(start, new_end, block, block_end) THEN "MemoryOverlap"
         ELSE IF fuel = 0 THEN "hang"
         ELSE checked_walk(m, m[block].next, start, new_end, fuel - 1)
checked_block(h, m, start, size) ==
    LET new_end == checked_add(start, size) IN
    IF new_end = NONE THEN "InvalidParam"
    ELSE checked_walk(m, h, start, new_end, Fuel(m))

\* ----------------------------------------------------------- Page Supplier
\* BitmapPageAllocator::alloc_pages: a run of num_pages free pages, or NoMemory.
\* `pal` is the number of pages already handed out.
alloc_pages(pal, num_pages, align_pow2) ==
    IF num_pages >= 1 /\ pal + num_pages <= PoolPages
    THEN [res |-> "Ok", addr |-> PoolBase + pal * PAGE_SIZE, pal |-> pal + num_pages]
    ELSE [res |-> "NoMemory", addr |-> NULL, pal |-> pal]

\* ------------------------------------------------- MergingAllocatorInner
\* S = [head, mem, total_bytes, used_bytes, palloc]
Result(res, S) == [res |-> res, S |-> S]

\* BaseAllocator::init
init(S, start, size) ==
    LET m1 == write_size(S.mem, start, size)
        r  == insert_free_block(S.head, m1, start)
    IN  IF r.st = "hang" THEN Result("hang", S)
        ELSE Result("Ok", [S EXCEPT !.head = r.h, !.mem = r.m, !.total_bytes = size])

\* BaseAllocator::add_memory
add_memory_resetting_total(S, start, size) ==
    LET c == checked_block(S.head, S.mem, start, size) IN
    IF c # "Ok" THEN Result(c, S)
    ELSE LET r == insert_free_block(S.head, write_size(S.mem, start, size), start)
         IN  Result("Ok", [S EXCEPT !.head = r.h, !.mem = r.m, !.total_bytes = size])
add_memory_uncounted(S, start, size) ==
    LET c == checked_block(S.head, S.mem, start, size) IN
    IF c # "Ok" THEN Result(c, S)
    ELSE LET r == insert_free_block(S.head, write_size(S.mem, start, size), start)
         IN  Result("Ok", [S EXCEPT !.head = r.h, !.mem = r.m])
add_memory(S, start, size) ==
    LET c == checked_block(S.head, S.mem, start, size) IN
    IF c # "Ok" THEN Result(c, S)
    ELSE LET m1 == write_size(S.mem, start, size)
             r  == insert_free_block(S.head, m1, start)
         IN  IF r.st = "hang" THEN Result("hang", S)
             ELSE Result("Ok", [S EXCEPT !.head = r.h, !.mem = r.m,
                                         !.total_bytes = @ + size])

AllocResult(res, ptr, S, path, blk, blksz, ovf) ==
    [res |-> res, ptr |-> ptr, S |-> S, path |-> path, blk |-> blk,
     blksz |-> blksz, ovf |-> ovf]

\* ByteAllocator::alloc, from `let block_size` to the end: carve the
\* aligned region out of `block`.  oc: the build checks integer overflow.
alloc_carve_always_removing(S, block, size, align, grown, oc) ==
    LET block_size   == S.mem[block].size
        ap           == aligned_ptr(block, align)
        aligned_size == block_size - (ap - block)
        r  == remove_free_block(S.head,
                    [S.mem EXCEPT ![block].size = aligned_size], block)
        used == S.used_bytes + aligned_size
        path == IF aligned_size < size THEN "undersized"
                ELSE IF grown THEN "grow" ELSE "hit"
    IN  AllocResult("Ok", ap,
            [S EXCEPT !.head = r.h, !.mem = r.m,
                      !.used_bytes = used % (usize_MAX + 1)],
            path, block, block_size, FALSE)
alloc_carve(S, block, size, align, grown, oc) ==
    LET block_size   == S.mem[block].size
        ap           == aligned_ptr(block, align)
        aligned_size == block_size - (ap - block)
        fits         == aligned_size >= size
        r  == IF fits
              THEN remove_free_block(S.head,
                        [S.mem EXCEPT ![block].size = aligned_size], block)
              ELSE [st |-> "ok", h |-> S.head, m |-> S.mem]
        used == S.used_bytes + aligned_size
        ovf  == used > usize_MAX
        path == IF ~fits THEN "undersized" ELSE IF grown THEN "grow" ELSE "hit"
    IN  IF r.st = "hang"
        THEN AllocResult("hang", NULL, S, path, block, block_size, FALSE)
        ELSE IF ovf /\ oc
        THEN AllocResult("panic", NULL, S, path, block, block_size, TRUE)
        ELSE AllocResult("Ok", ap,
                 [S EXCEPT !.head = r.h, !.mem = r.m,
                           !.used_bytes = used % (usize_MAX + 1)],
                 path, block, block_size, ovf)

\* ByteAllocator::alloc, the None arm of the match: grow by the Page Supplier.
alloc_grow(S, lsize, size) ==
    LET old_size    == S.total_bytes
        expand_size == Max(next_power_of_two(Max(old_size, lsize)), PAGE_SIZE)
        pg == alloc_pages(S.palloc, expand_size \div PAGE_SIZE, PAGE_SIZE)
    IN  IF pg.res # "Ok" THEN [res |-> pg.res, S |-> S, block |-> NULL]
        ELSE LET am == add_memory([S EXCEPT !.palloc = pg.pal], pg.addr, size) IN
             IF am.res # "Ok" THEN [res |-> am.res, S |-> am.S, block |-> NULL]
             ELSE LET f == find_free_block(am.S.head, am.S.mem, size) IN
                  IF f = HANG THEN [res |-> "hang", S |-> am.S, block |-> NULL]
                  ELSE IF f = NULL THEN [res |-> "NoMemory", S |-> am.S, block |-> NULL]
                  ELSE [res |-> "Ok", S |-> am.S, block |-> f]

\* ByteAllocator::alloc
alloc_counting_first(S, lsize, align, oc) ==
    LET size == Max(lsize, align)
        S1   == [S EXCEPT !.used_bytes = @ + size]
        f    == find_free_block(S.head, S.mem, size)
    IN  IF f = HANG THEN AllocResult("hang", NULL, S, "none", NULL, 0, FALSE)
        ELSE IF f # NULL THEN alloc_carve(S, f, size, align, FALSE, oc)
        ELSE LET g == alloc_grow(S1, lsize, size) IN
             IF g.res # "Ok"
             THEN AllocResult(g.res, NULL, g.S, "none", NULL, 0, FALSE)
             ELSE alloc_carve([g.S EXCEPT !.used_bytes = S.used_bytes],
                              g.block, size, align, TRUE, oc)
alloc(S, lsize, align, oc) ==
    LET size == Max(lsize, align)
        f    == find_free_block(S.head, S.mem, size)
    IN  IF f = HANG THEN AllocResult("hang", NULL, S, "none", NULL, 0, FALSE)
        ELSE IF f # NULL THEN alloc_carve(S, f, size, align, FALSE, oc)
        ELSE LET g == alloc_grow(S, lsize, size) IN
             IF g.res # "Ok"
             THEN AllocResult(g.res, NULL, g.S, "none", NULL, 0, FALSE)
             ELSE alloc_carve(g.S, g.block, size, align, TRUE, oc)

\* ByteAllocator::dealloc
dealloc(S, pos, lsize, align, oc) ==
    LET size == Max(lsize, align)
        m1   == write_size(S.mem, pos, size)
        r1   == insert_free_block(S.head, m1, pos)
        r2   == IF r1.st = "hang" THEN r1 ELSE merge_adjacent_blocks(r1.h, r1.m, pos)
        used == S.used_bytes - size
        ovf  == used < 0
    IN  IF r2.st = "hang" THEN [res |-> "hang", S |-> S, ovf |-> FALSE]
        ELSE IF ovf /\ oc THEN [res |-> "panic", S |-> S, ovf |-> TRUE]
        ELSE [res |-> "Ok", ovf |-> ovf,
              S |-> [S EXCEPT !.head = r2.h, !.mem = r2.m,
                              !.used_bytes = used % (usize_MAX + 1)]]

\* ByteAllocator::available_bytes
available_bytes(S, oc) ==
    LET v == S.total_bytes - S.used_bytes IN
    IF v < 0 /\ oc THEN [res |-> "panic", val |-> 0, ovf |-> TRUE]
    ELSE [res |-> "Ok", val |-> v % (usize_MAX + 1), ovf |-> v < 0]

\* ------------------------------------------------------------------ state
VARIABLES
    head,            \* MergingAllocatorInner.head
    mem,             \* FreeBlock headers reachable from head: addr -> [size, next]
    total_bytes,     \* MergingAllocatorInner.total_bytes
    used_bytes,      \* MergingAllocatorInner.used_bytes
    palloc,          \* pages the Page Supplier has handed out
    lock,            \* holder of MergingAllocator.inner between calls: 0, or
                     \* the caller whose call never returned
    halted,          \* "run", or "panic" / "hang" once a call never returns
    overflow_checks, \* "on": the build panics on integer overflow, "off": it
                     \* wraps; "unknown" until the first overflow shows which
    initialized,     \* init has been called
    donated,         \* extents the callers registered successfully
    outstanding,     \* bag of allocations [ptr, size, align] held by callers
    last,            \* the last call: its arguments and what it returned
    trip,            \* set right after dealloc(p, layout) that directly follows
                     \* the alloc(layout) that returned p: the block p came from
    palloc_lock,     \* holder of MergingAllocatorInner.palloc's lock, or 0
    pc               \* where each caller is inside its call (LockSpec)

vars == <<head, mem, total_bytes, used_bytes, palloc, lock, halted,
          overflow_checks, initialized, donated, outstanding, last, trip,
          palloc_lock, pc>>

Inner == [head |-> head, mem |-> mem, total_bytes |-> total_bytes,
          used_bytes |-> used_bytes, palloc |-> palloc]

\* after_init: the call before this one was init
NoCall == [op |-> "new", res |-> "Ok", start |-> 0, size |-> 0, align |-> 0,
           ptr |-> NULL, path |-> "none", blk |-> NULL, blksz |-> 0,
           after_init |-> FALSE]
NoTrip == [on |-> FALSE, blk |-> NULL, blksz |-> 0]
\* A caller outside every method of the allocator.
\* at: the step the caller is at; op, arg: the method and its arguments;
\* S: the fields of MergingAllocatorInner as the method read them.
Idle == [at |-> "idle", op |-> "none",
         arg |-> [ptr |-> NULL, size |-> 0, align |-> 0],
         S |-> [head |-> NULL, mem |-> << >>, total_bytes |-> 0,
                used_bytes |-> 0, palloc |-> 0]]

\* MergingAllocator::new
Init ==
    /\ head = NULL
    /\ mem = << >>
    /\ total_bytes = 0
    /\ used_bytes = 0
    /\ palloc = 0
    /\ lock = 0
    /\ halted = "run"
    /\ overflow_checks = "unknown"
    /\ initialized = FALSE
    /\ donated = {}
    /\ outstanding = EmptyBag
    /\ last = NoCall
    /\ trip = NoTrip
    /\ palloc_lock = 0
    /\ pc = [c \in Callers |-> Idle]

\* The overflow-checks settings the build may still have.
Builds == IF overflow_checks = "unknown" THEN BOOLEAN ELSE {overflow_checks = "on"}

\* Every method of MergingAllocator takes self.inner.lock(), runs the inner
\* method and drops the guard when it returns: the call of caller c is one
\* atomic step.  A panicking or hanging call never returns and keeps the
\* lock; the kernel stops there.
\* C: the callers the call may come from.
\* ovf: an integer operation of the call overflowed, under build setting oc.
Return(C, res, S, ovf, oc) ==
    /\ overflow_checks' = IF ovf THEN (IF oc THEN "on" ELSE "off")
                          ELSE overflow_checks
    /\ IF res \in {"panic", "hang"}
       THEN /\ halted' = res
            /\ lock' \in C
            /\ UNCHANGED <<head, mem, total_bytes, used_bytes, palloc>>
       ELSE /\ halted' = halted
            /\ head' = S.head
            /\ mem' = Live(S.head, S.mem)
            /\ total_bytes' = S.total_bytes
            /\ used_bytes' = S.used_bytes
            /\ palloc' = S.palloc
            /\ lock' = 0

Disjoint(s1, n1, s2, n2) == s1 + n1 <= s2 \/ s2 + n2 <= s1
InPool(s, n) == ~Disjoint(s, n, PoolBase, PoolPages * PAGE_SIZE)
FreeBlocks == { <<a, mem[a].size>> : a \in DOMAIN mem }
HitsFree(s, n) == \E b \in FreeBlocks : ~Disjoint(s, n, b[1], b[2])

\* The methods of MergingAllocator from the point where the guard of
\* self.inner is held: the inner method runs on the fields S it reads, its
\* result is written back and the guard is dropped on return.
\* inner.init(start, size)
DoInit(C, S, e) ==
    /\ ~initialized
    /\ \E r \in {init(S, e[1], e[2])} :
       /\ Return(C, r.res, r.S, FALSE, FALSE)
       /\ last' = [NoCall EXCEPT !.op = "init", !.res = r.res,
                                 !.start = e[1], !.size = e[2]]
    /\ initialized' = TRUE
    /\ donated' = {e}
    /\ trip' = NoTrip
    /\ UNCHANGED outstanding

\* MergingAllocator::init
CallInit(e) ==
    /\ halted = "run" /\ lock = 0
    /\ DoInit(Callers, Inner, e)
    /\ UNCHANGED <<palloc_lock, pc>>

\* inner.add_memory(start, size).  The caller donates memory nobody owns yet,
\* or wrongly donates memory that is free in the allocator, or an extent
\* that runs past the end of the address space.
DoAddMemory(C, S, e) ==
    /\ initialized
    /\ \/ /\ ~InPool(e[1], e[2])
          /\ \A d \in donated : Disjoint(e[1], e[2], d[1], d[2])
       \/ HitsFree(e[1], e[2])
       \/ e[1] + e[2] > usize_MAX
    /\ \E r \in {add_memory(S, e[1], e[2])} :
       /\ Return(C, r.res, r.S, FALSE, FALSE)
       /\ last' = [NoCall EXCEPT !.op = "add_memory", !.res = r.res,
                                 !.start = e[1], !.size = e[2],
                                 !.after_init = (last.op = "init")]
       /\ donated' = IF r.res = "Ok" THEN donated \cup {e} ELSE donated
    /\ trip' = NoTrip
    /\ UNCHANGED <<initialized, outstanding>>

\* MergingAllocator::add_memory
CallAddMemory(e) ==
    /\ halted = "run" /\ lock = 0
    /\ DoAddMemory(Callers, Inner, e)
    /\ UNCHANGED <<palloc_lock, pc>>

\* inner.alloc(layout)
DoAlloc(C, S, l) ==
    /\ initialized
    /\ BagCardinality(outstanding) < MaxOutstanding
    /\ \E oc \in Builds :
       \E r \in {alloc(S, l[1], l[2], oc)} :
       /\ Return(C, r.res, r.S, r.ovf, oc)
       /\ last' = [NoCall EXCEPT !.op = "alloc", !.res = r.res, !.size = l[1],
                                 !.align = l[2], !.ptr = r.ptr, !.path = r.path,
                                 !.blk = r.blk, !.blksz = r.blksz]
       /\ outstanding' =
            IF r.res = "Ok"
            THEN outstanding (+) SetToBag({[ptr |-> r.ptr, size |-> l[1], align |-> l[2]]})
            ELSE outstanding
    /\ trip' = NoTrip
    /\ UNCHANGED <<initialized, donated>>

\* MergingAllocator::alloc
CallAlloc(l) ==
    /\ halted = "run" /\ lock = 0
    /\ DoAlloc(Callers, Inner, l)
    /\ UNCHANGED <<palloc_lock, pc>>

\* inner.dealloc(pos, layout), with the pointer and layout of an allocation
\* the caller still holds.
DoDealloc(C, S, a) ==
    /\ BagIn(a, outstanding)
    /\ \E oc \in Builds :
       \E r \in {dealloc(S, a.ptr, a.size, a.align, oc)} :
       /\ Return(C, r.res, r.S, r.ovf, oc)
       /\ last' = [NoCall EXCEPT !.op = "dealloc", !.res = r.res, !.ptr = a.ptr,
                                 !.size = a.size, !.align = a.align]
       /\ outstanding' = IF r.res = "Ok" THEN outstanding (-) SetToBag({a})
                         ELSE outstanding
       /\ trip' = IF /\ r.res = "Ok"
                     /\ last.op = "alloc" /\ last.res = "Ok" /\ last.ptr = a.ptr
                     /\ last.size = a.size /\ last.align = a.align
                  THEN [on |-> TRUE, blk |-> last.blk, blksz |-> last.blksz]
                  ELSE NoTrip
    /\ UNCHANGED <<initialized, donated>>

\* MergingAllocator::dealloc
CallDealloc(a) ==
    /\ halted = "run" /\ lock = 0
    /\ DoDealloc(Callers, Inner, a)
    /\ UNCHANGED <<palloc_lock, pc>>

\* inner.available_bytes()
DoAvailableBytes(C, S) ==
    /\ initialized
    /\ \E oc \in Builds :
       \E r \in {available_bytes(S, oc)} :
       /\ Return(C, r.res, Inner, r.ovf, oc)
       /\ last' = [NoCall EXCEPT !.op = "available_bytes", !.res = r.res,
                                 !.size = r.val]
    /\ trip' = NoTrip
    /\ UNCHANGED <<initialized, donated, outstanding>>

\* MergingAllocator::available_bytes
CallAvailableBytes ==
    /\ halted = "run" /\ lock = 0
    /\ DoAvailableBytes(Callers, Inner)
    /\ UNCHANGED <<palloc_lock, pc>>

Next ==
    \/ \E e \in InitExtents : CallInit(e)
    \/ \E e \in AddExtents : CallAddMemory(e)
    \/ \E l \in Layouts : CallAlloc(l)
    \/ \E a \in BagToSet(outstanding) : CallDealloc(a)
    \/ CallAvailableBytes

Spec == Init /\ [][Next]_vars

\* ------------------------------------------------------ callers and locks
\* The same methods with the steps of their locks apart: a caller enters a
\* method, takes the guard of self.inner, on the growth path of alloc takes
\* and drops the guard of self.palloc around alloc_pages, and returns.
Arg(p, s, a) == [ptr |-> p, size |-> s, align |-> a]
\* The calls a caller may make in the current state.
LockCalls ==
    {[op |-> "init", arg |-> Arg(e[1], e[2], 0)] : e \in LockInitExtents}
    \cup {[op |-> "add_memory", arg |-> Arg(e[1], e[2], 0)] : e \in LockAddExtents}
    \cup {[op |-> "alloc", arg |-> Arg(NULL, l[1], l[2])] : l \in LockLayouts}
    \cup {[op |-> "dealloc", arg |-> a] : a \in BagToSet(outstanding)}
    \cup {[op |-> "available_bytes", arg |-> Arg(NULL, 0, 0)]}
Valid(k) ==
    CASE k.op = "init" -> ~initialized
      [] k.op = "add_memory" ->
            /\ initialized
            /\ \/ /\ ~InPool(k.arg.ptr, k.arg.size)
                  /\ \A d \in donated : Disjoint(k.arg.ptr, k.arg.size, d[1], d[2])
               \/ HitsFree(k.arg.ptr, k.arg.size)
      [] k.op = "alloc" ->
            initialized /\ BagCardinality(outstanding) < MaxOutstanding
      [] k.op = "dealloc" -> BagIn(k.arg, outstanding)
      [] OTHER -> initialized
\* alloc misses on the free list it finds and goes to the Page Supplier
Grows(k, S) ==
    /\ k.op = "alloc"
    /\ find_free_block(S.head, S.mem, Max(k.arg.size, k.arg.align)) = NULL

\* a caller calls a method of MergingAllocator
Enter(c) ==
    /\ halted = "run" /\ pc[c].at = "idle"
    /\ pc' = [pc EXCEPT ![c].at = "lock_inner"]
    /\ UNCHANGED <<head, mem, total_bytes, used_bytes, palloc, lock, halted,
                   overflow_checks, initialized, donated, outstanding, last,
                   trip, palloc_lock>>

\* self.inner.lock(): spin until the lock is free, then read the fields
LockInner_without_lock(c, k) ==
    /\ halted = "run" /\ pc[c].at = "lock_inner"
    /\ Valid(k)
    /\ lock' = c
    /\ pc' = [pc EXCEPT ![c] =
                [at |-> IF Grows(k, Inner) THEN "lock_palloc" ELSE "body",
                 op |-> k.op, arg |-> k.arg, S |-> Inner]]
    /\ UNCHANGED <<head, mem, total_bytes, used_bytes, palloc, halted,
                   overflow_checks, initialized, donated, outstanding, last,
                   trip, palloc_lock>>
LockInner(c, k) ==
    /\ halted = "run" /\ pc[c].at = "lock_inner"
    /\ lock = 0
    /\ Valid(k)
    /\ lock' = c
    /\ pc' = [pc EXCEPT ![c] =
                [at |-> IF Grows(k, Inner) THEN "lock_palloc" ELSE "body",
                 op |-> k.op, arg |-> k.arg, S |-> Inner]]
    /\ UNCHANGED <<head, mem, total_bytes, used_bytes, palloc, halted,
                   overflow_checks, initialized, donated, outstanding, last,
                   trip, palloc_lock>>

\* self.palloc.lock()
LockPalloc(c) ==
    /\ halted = "run" /\ pc[c].at = "lock_palloc"
    /\ palloc_lock = 0
    /\ palloc_lock' = c
    /\ pc' = [pc EXCEPT ![c].at = "alloc_pages"]
    /\ UNCHANGED <<head, mem, total_bytes, used_bytes, palloc, lock, halted,
                   overflow_checks, initialized, donated, outstanding, last,
                   trip>>

\* .alloc_pages(expand_size / PAGE_SIZE, PAGE_SIZE)?; the guard of
\* self.palloc is a temporary of this statement and is dropped with it
AllocPages_keeping_guard(c) ==
    /\ halted = "run" /\ pc[c].at = "alloc_pages"
    /\ \E expand_size \in {Max(next_power_of_two(
                              Max(pc[c].S.total_bytes, pc[c].arg.size)), PAGE_SIZE)} :
         palloc' = alloc_pages(palloc, expand_size \div PAGE_SIZE, PAGE_SIZE).pal
    /\ pc' = [pc EXCEPT ![c].at = "body"]
    /\ UNCHANGED <<head, mem, total_bytes, used_bytes, lock, halted,
                   overflow_checks, initialized, donated, outstanding, last,
                   trip, palloc_lock>>
AllocPages(c) ==
    /\ halted = "run" /\ pc[c].at = "alloc_pages"
    /\ \E expand_size \in {Max(next_power_of_two(
                              Max(pc[c].S.total_bytes, pc[c].arg.size)), PAGE_SIZE)} :
         palloc' = alloc_pages(palloc, expand_size \div PAGE_SIZE, PAGE_SIZE).pal
    /\ palloc_lock' = 0
    /\ pc' = [pc EXCEPT ![c].at = "body"]
    /\ UNCHANGED <<head, mem, total_bytes, used_bytes, lock, halted,
                   overflow_checks, initialized, donated, outstanding, last,
                   trip>>

\* the rest of the inner method, and the return that drops the guard of
\* self.inner
Body(c, S) ==
    \/ pc[c].op = "init"
         /\ DoInit({c}, S, <<pc[c].arg.ptr, pc[c].arg.size>>)
    \/ pc[c].op = "add_memory"
         /\ DoAddMemory({c}, S, <<pc[c].arg.ptr, pc[c].arg.size>>)
    \/ pc[c].op = "alloc"
         /\ DoAlloc({c}, S, <<pc[c].arg.size, pc[c].arg.align>>)
    \/ pc[c].op = "dealloc"
         /\ DoDealloc({c}, S, pc[c].arg)
    \/ pc[c].op = "available_bytes"
         /\ DoAvailableBytes({c}, S)
Commit(c) ==
    /\ halted = "run" /\ pc[c].at = "body"
    /\ Body(c, pc[c].S)
    /\ pc' = IF halted' = "run" THEN [pc EXCEPT ![c] = Idle] ELSE pc
    /\ UNCHANGED palloc_lock

LockNext ==
    \/ \E c \in Callers : Enter(c)
    \/ \E c \in Callers : \E k \in LockCalls : LockInner(c, k)
    \/ \E c \in Callers : LockPalloc(c)
    \/ \E c \in Callers : AllocPages(c)
    \/ \E c \in Callers : Commit(c)

LockSpec == Init /\ [][LockNext]_vars

\* ------------------------------------------------------------ observations
\* The free list read from the head: <<addr, size>> in list order.
FreeList == [i \in DOMAIN Chain(head, mem) |->
                <<Chain(head, mem)[i], mem[Chain(head, mem)[i]].size>>]
Running == initialized /\ halted = "run"
Errors == {"NoMemory", "InvalidParam", "MemoryOverlap"}
\* max(size, align) of an allocation: what dealloc subtracts
NeedOf(a) == Max(a.size, a.align)
RECURSIVE SumNeed(_, _)
SumNeed(B, dom) ==
    IF dom = {} THEN 0
    ELSE LET a == CHOOSE x \in dom : TRUE
         IN  B[a] * NeedOf(a) + SumNeed(B, dom \ {a})
OutstandingBytes == SumNeed(outstanding, DOMAIN outstanding)
\* The allocator state a caller can observe is what it was before the step.
StateUnchanged == UNCHANGED <<head, mem, total_bytes, used_bytes>>
\* find(need) misses in the current state
Misses(need) == \A b \in FreeBlocks : b[2] < need
\* The pages alloc asks the Page Supplier for on a miss of layout size lsize
PagesWanted(lsize) ==
    Max(next_power_of_two(Max(total_bytes, lsize)), PAGE_SIZE) \div PAGE_SIZE
CanGrant(lsize) == alloc_pages(palloc, PagesWanted(lsize), PAGE_SIZE).res = "Ok"

\* ------------------------------------------------------------------ claims

\* C1 (Conservation): used_bytes equals the sum of max(size, align) over the
\* allocations currently outstanding; 0 when nothing is outstanding.
C1_Conservation == Running => used_bytes = OutstandingBytes

\* C2 (No overlapping allocations): the ranges [ptr, ptr+size) of any two
\* allocations outstanding at the same time are disjoint.
C2_NoOverlappingAllocations ==
    Running =>
        /\ \A a \in DOMAIN outstanding : outstanding[a] = 1
        /\ \A a, b \in DOMAIN outstanding :
              a # b => Disjoint(a.ptr, a.size, b.ptr, b.size)

\* C3 (Alignment correctness): every alloc that returns Ok(ptr) returns a ptr
\* divisible by layout.align(), on the free-list-hit and on the growth path.
C3_AlignmentCorrect ==
    (last.op = "alloc" /\ last.res = "Ok") => last.ptr % last.align = 0
\* an alloc served from a block whose start is not aligned
C3_Witness ==
    /\ last.op = "alloc" /\ last.res = "Ok"
    /\ last.ptr # last.blk /\ last.path = "hit"

\* An add_memory(start, size) call is what the step did.
AddMemoryStep == last'.op = "add_memory"
AddStart == last'.start
AddSize == last'.size
\* The extent of the call touches a free block and intersects none.
TouchesOnly(s, n) ==
    /\ ~HitsFree(s, n)
    /\ \E b \in FreeBlocks : s + n = b[1] \/ b[1] + b[2] = s
EndOverflows(s, n) == s + n > usize_MAX

C5_FullCoalescing ==
    (Running /\ outstanding = EmptyBag /\ palloc = 0 /\ Cardinality(donated) = 1)
        => \A e \in donated : FreeList = << e >>

\* C6 (Release-then-reallocate round trip): alloc(layout) = p, dealloc(p,
\* layout), alloc(layout): the second alloc returns Ok without growing
\* (total_bytes unchanged) and its pointer lies in the block the first
\* allocation was carved from.
C6_RoundTrip ==
    [][ (trip.on /\ last'.op = "alloc"
            /\ last'.size = last.size /\ last'.align = last.align)
        => /\ last'.res = "Ok"
           /\ total_bytes' = total_bytes
           /\ last'.ptr >= trip.blk /\ last'.ptr < trip.blk + trip.blksz ]_vars

\* C7 (Growth on exhaustion): when no free block has size >= max(size, align)
\* and the Page Supplier can grant the pages asked for, alloc returns Ok and
\* total_bytes grows.
C7_GrowthOnExhaustion ==
    [][ (last'.op = "alloc" /\ Misses(Max(last'.size, last'.align))
            /\ CanGrant(last'.size))
        => (last'.res = "Ok" /\ total_bytes' > total_bytes) ]_vars

\* C8 (Failed growth is side-effect free): on a miss with the Page Supplier
\* failing, alloc returns NoMemory and used_bytes, total_bytes and the free
\* list are unchanged; every alloc that returns Err leaves used_bytes
\* unchanged.
C8_FailedGrowthNoEffect ==
    [][ last'.op = "alloc" =>
          /\ (Misses(Max(last'.size, last'.align)) /\ ~CanGrant(last'.size))
                => (last'.res = "NoMemory" /\ StateUnchanged)
          /\ last'.res \in Errors => used_bytes' = used_bytes ]_vars
\* an alloc failed with allocations outstanding
C8_Witness ==
    /\ last.op = "alloc" /\ last.res = "NoMemory"
    /\ used_bytes > 0

\* C9 (Non-overlapping extents are both accepted): init(s1, n1) directly
\* followed by add_memory(s2, n2), disjoint and not overflowing: add_memory
\* returns Ok, total_bytes = n1 + n2 and the free list holds exactly the
\* blocks (s1, n1) and (s2, n2).
C9_DisjointExtentsAccepted ==
    [][ (last.op = "init" /\ AddMemoryStep
            /\ Disjoint(last.start, last.size, AddStart, AddSize)
            /\ ~EndOverflows(AddStart, AddSize))
        => /\ last'.res = "Ok"
           /\ total_bytes' = last.size + AddSize
           /\ Range(FreeList') = { <<last.start, last.size>>, <<AddStart, AddSize>> }
           /\ Len(FreeList') = 2 ]_vars
\* add_memory succeeded right after init
C9_Witness ==
    /\ last.op = "add_memory" /\ last.after_init /\ last.res = "Ok"
    /\ Cardinality(donated) = 2

\* C10 (Address overflow is rejected): add_memory with start + size above the
\* largest address returns Err(InvalidParam) and registers nothing.
C10_OverflowRejected ==
    [][ (AddMemoryStep /\ EndOverflows(AddStart, AddSize))
        => (last'.res = "InvalidParam" /\ StateUnchanged) ]_vars
\* an overflowing extent was rejected
C10_Witness ==
    /\ last.op = "add_memory" /\ last.res = "InvalidParam"
    /\ EndOverflows(last.start, last.size)

C12_FreeRegionsDisjoint ==
    Running =>
        \A a, b \in FreeBlocks : a # b => Disjoint(a[1], a[2], b[1], b[2])

\* The caller that holds the lock caller c waits for, 0 when c waits for no
\* lock or the lock is free.
WaitsOn(c) ==
    IF pc[c].at = "lock_inner" THEN lock
    ELSE IF pc[c].at = "lock_palloc" THEN palloc_lock
    ELSE 0
\* the caller n waits down the chain from c, 0 when the chain ends before
RECURSIVE WaitChain(_, _)
WaitChain(c, n) ==
    IF n = 0 \/ c = 0 THEN c ELSE WaitChain(WaitsOn(c), n - 1)
\* A chain of waits as long as there are callers runs through a cycle.
WaitCycle == \E c \in Callers : WaitChain(c, NumCallers) # 0

\* C13 (Lock ordering and deadlock freedom): a caller takes the Page Supplier
\* lock only while it holds the allocator lock and has dropped it when it
\* drops the allocator lock; no caller takes the allocator lock while it
\* holds the Page Supplier lock; callers never wait for each other's locks
\* in a cycle.
C13_LockOrder ==
    [][ /\ \A c \in Callers :
            /\ (palloc_lock' = c /\ palloc_lock # c) => (lock = c /\ lock' = c)
            /\ (lock = c /\ lock' # c) => (palloc_lock # c /\ palloc_lock' # c)
            /\ (lock' = c /\ lock # c) => (palloc_lock # c /\ palloc_lock' # c)
        /\ ~WaitCycle' ]_vars
\* a caller on the growth path holds both locks while another caller waits
\* for the allocator lock
C13_Witness ==
    \E c, d \in Callers :
        /\ c # d
        /\ pc[c].at = "alloc_pages" /\ lock = c /\ palloc_lock = c
        /\ pc[d].at = "lock_inner"

\* Caller c is inside a method, between taking the guard and returning.
InCall(c) == pc[c].at \in {"body", "lock_palloc", "alloc_pages"}
\* The fields as they are now, with the Page Supplier as the call found it.
InnerFor(c) == [Inner EXCEPT !.palloc = pc[c].S.palloc]

\* C14 (Serialization under the allocator lock): at most one caller is
\* inside a method at a time, and what a call leaves when it returns (free
\* list, total_bytes, used_bytes, result) is what the same call leaves when
\* it runs alone on the state the previous call to return left: the calls
\* take effect one at a time in the order they return.
C14_Serialized ==
    [][ /\ \A c, d \in Callers : (InCall(c)' /\ InCall(d)') => c = d
        /\ \A c \in Callers :
              (pc[c].at = "body" /\ pc'[c] # pc[c]) => Body(c, InnerFor(c))
        /\ (\A c \in Callers : pc[c].at # "body" \/ pc'[c] = pc[c])
              => UNCHANGED <<head, mem, total_bytes, used_bytes>> ]_vars
\* an alloc has returned, a dealloc holds the allocator lock and another
\* caller waits for it
C14_Witness ==
    \E c, d \in Callers :
        /\ c # d
        /\ last.op = "alloc" /\ last.res = "Ok" /\ used_bytes > 0
        /\ pc[c].at = "body" /\ pc[c].op = "dealloc"
        /\ pc[d].at = "lock_inner"

\* Memory is compared in units of Unit bytes: every address and size of the
\* callers is a multiple of it.
Unit == PAGE_SIZE \div 8
\* the units of [s, s + n)
Units(s, n) == { u \in (s \div Unit)..((s + n - 1) \div Unit) : n > 0 }
RECURSIVE UnitsOf(_)
UnitsOf(B) ==
    IF B = {} THEN {}
    ELSE LET b == CHOOSE x \in B : TRUE
         IN  Units(b[1], b[2]) \cup UnitsOf(B \ {b})
\* the units the free list covers
FreeUnits == UnitsOf(FreeBlocks)

\* C15 (Growth amount): on a find miss alloc asks the Page Supplier for
\* G / PAGE_SIZE pages, G = max(PAGE_SIZE, next_power_of_two(max(total_bytes,
\* size))); after a successful growth total_bytes has grown by G and the
\* whole granted extent is on the free list or part of the allocation
\* returned.
C15_GrowthAmount ==
    [][ (last'.op = "alloc" /\ last'.res = "Ok"
            /\ Misses(Max(last'.size, last'.align)))
        => \E G \in {Max(PAGE_SIZE, next_power_of_two(Max(total_bytes, last'.size)))} :
             /\ palloc' = palloc + G \div PAGE_SIZE
             /\ total_bytes' = total_bytes + G
             /\ Units(PoolBase + palloc * PAGE_SIZE, G) \subseteq
                  (FreeUnits' \cup Units(last'.ptr, last'.size)) ]_vars

\* The block find(need) returns in the current state: the first block of the
\* free list with size >= need, <<NULL, 0>> when there is none.
FirstFit(need) ==
    LET fit == { i \in 1..Len(FreeList) : FreeList[i][2] >= need }
    IN  IF fit = {} THEN <<NULL, 0>>
        ELSE FreeList[CHOOSE i \in fit : \A j \in fit : i <= j]
\* the alignment padding in front of the aligned address of block b
Padding(b, align) == ((b[1] + align - 1) \div align) * align - b[1]

\* C16 (Undersized-after-alignment branch): when find returns a block whose
\* size minus the alignment padding is smaller than need = max(size, align),
\* alloc returns Ok with the aligned pointer, adds aligned_size to used_bytes
\* and leaves the block on the free list with its size unchanged; it does
\* not look for another block and does not grow.
C16_UndersizedBranch ==
    [][ last'.op = "alloc" =>
          \A b \in {FirstFit(Max(last'.size, last'.align))} :
            (b[1] # NULL
                /\ b[2] - Padding(b, last'.align) < Max(last'.size, last'.align))
            => /\ last'.res = "Ok"
               /\ last'.ptr = b[1] + Padding(b, last'.align)
               /\ used_bytes' =
                    (used_bytes + b[2] - Padding(b, last'.align)) % (usize_MAX + 1)
               /\ FreeList' = FreeList
               /\ total_bytes' = total_bytes /\ palloc' = palloc ]_vars
\* alloc returned a pointer into a block that is still on the free list
C16_Witness ==
    /\ last.op = "alloc" /\ last.res = "Ok" /\ last.path = "undersized"
    /\ <<last.blk, last.blksz>> \in FreeBlocks
    /\ last.ptr > last.blk

\* C17 (total_bytes is monotone and changes only on registration): after
\* init total_bytes never decreases; a successful add_memory adds the size
\* registered, a growing alloc adds the size it registers, max(size, align);
\* dealloc, alloc without growth and every failed add_memory or alloc leave
\* it unchanged.
C17_TotalBytesMonotone ==
    [][ initialized =>
          /\ total_bytes' >= total_bytes
          /\ total_bytes' =
               IF last'.op = "add_memory" /\ last'.res = "Ok"
               THEN total_bytes + last'.size
               ELSE IF /\ last'.op = "alloc" /\ last'.res = "Ok"
                       /\ Misses(Max(last'.size, last'.align))
               THEN total_bytes + Max(last'.size, last'.align)
               ELSE total_bytes ]_vars
\* total_bytes counts a donated extent and an extent registered by growth
C17_Witness ==
    /\ last.op = "alloc" /\ last.res = "Ok" /\ last.path = "grow"
    /\ Cardinality(donated) = 2
    /\ \E e1, e2 \in donated :
          e1 # e2 /\ total_bytes = e1[2] + e2[2] + Max(last.size, last.align)

\* Memory registered by init and add_memory, and the pages granted for
\* growth, which hold what growth registered.
RegisteredUnits ==
    UnitsOf(donated) \cup Units(PoolBase, palloc * PAGE_SIZE)
\* the units of the allocations the callers hold
OutstandingUnits ==
    UnitsOf({ <<a.ptr, a.size>> : a \in DOMAIN outstanding })

\* C18 (Free blocks cover only free registered memory): every block of the
\* free list lies inside registered memory and intersects no outstanding
\* allocation; after dealloc(p, layout) the free list covers what it covered
\* before plus [p, p + max(size, align)).
C18_FreeIsFreeRegistered ==
    [][ Running' =>
          /\ FreeUnits' \subseteq RegisteredUnits'
          /\ FreeUnits' \cap OutstandingUnits' = {}
          /\ (last'.op = "dealloc" /\ last'.res = "Ok") =>
                FreeUnits' = FreeUnits \cup
                    Units(last'.ptr, Max(last'.size, last'.align)) ]_vars

\* C19 (Counters stay in range): 0 <= used_bytes <= total_bytes; no
\* subtraction in dealloc or available_bytes goes below zero (no call
\* overflows or panics on its counter arithmetic).
C19_CountersInRange ==
    /\ 0 <= used_bytes /\ used_bytes <= total_bytes
    /\ overflow_checks = "unknown"
    /\ halted # "panic"

\* C20 (Acyclic free list and termination): no address is twice on the free
\* list, the next links from the head reach the end, and every alloc,
\* dealloc and add_memory call terminates.
C20_AcyclicTerminates ==
    /\ Acyclic(head, mem)
    /\ Cardinality(Range(Chain(head, mem))) = Len(Chain(head, mem))
    /\ halted # "hang"

====
